---- MODULE Spec2Model ----
(***************************************************************************)
(* safeskill/setup.py: locating the bundled default configuration and      *)
(* copying it into a target configuration directory.                       *)
(*                                                                         *)
(* The state is the part of the host the code reads and writes (the        *)
(* environment variable, the candidate bundle directories, the target      *)
(* directory) together with the frame of the running initialize_config     *)
(* call (its position, locals and the structlog events it has emitted).    *)
(***************************************************************************)
EXTENDS Naturals, Sequences, FiniteSets

\* ------------------------------------------------------------------ bounds

\* initialize_config is called at most this many times in a row
MaxCalls == 2
\* an incomplete bundle directory lacks at most this many manifest files
\* (or all of them)
MaxMissing == 1

\* ------------------------------------------------------------------ paths

\* pathlib's "/" operator on two path components
Join(a, b) == a \o "/" \o b

\* Path(__file__).parent : the directory holding setup.py
ModuleDir == "/site/safeskill"
\* Path(__file__).parent.parent
ModuleParent == "/site"
\* the well-known installation path
OptConfig == "/opt/safeskill/src/config"
\* the config_dir argument of initialize_config
ConfigDir == "/etc/safeskill"

\* os.environ.get returns None for a variable that is not set
None == "<None>"
\* values of SAFESKILL_INSTALL_DIR on the hosts considered: not set, empty,
\* a directory of its own, and the well-known installation root
InstallDirs == {None, "", "/srv/safeskill", "/opt/safeskill/src"}

files_to_copy == <<"base-policy.yaml", "runtime-policy.yaml", "signatures.yaml">>
env_files == <<"dev.yaml", "staging.yaml", "production.yaml">>

Range(s) == {s[k] : k \in 1..Len(s)}

\* the six manifest entries, relative to a bundle directory
Manifest == Range(files_to_copy) \cup {Join("environments", f) : f \in Range(env_files)}

\* ------------------------------------------------------------------ state

VARIABLES
    install_dir,   \* os.environ["SAFESKILL_INSTALL_DIR"], or None
    disk,          \* paths that exist under the candidate directories
    target,        \* ConfigDir: "absent", "dir" or "blocked" (cannot be created)
    envdir,        \* ConfigDir/environments: "absent", "dir" or "blocked"
    tfiles,        \* destination path -> content ("" when there is no file)
    locked,        \* destination paths that refuse to be written
    mode,          \* permission bits of ConfigDir
    chmod_ok,      \* whether the host lets the process chmod ConfigDir
    pc,            \* position of the running call
    raised,        \* the call that raised: the statement that raised
    bundled,       \* local: result of _find_bundled_config
    idx,           \* local: position in the loop being run
    copied,        \* local: the copied counter
    log,           \* events emitted by the running call
    chmod_called,  \* whether the running call has called os.chmod
    calls,         \* number of calls started
    pre,           \* target as it was when the running call started
    last           \* outcome of the previous call

vars == <<install_dir, disk, target, envdir, tfiles, locked, mode, chmod_ok, pc,
          raised, bundled, idx, copied, log, chmod_called, calls, pre, last>>

host == <<install_dir, disk, locked, chmod_ok>>

\* ------------------------------------------------------------------ host

EnvironmentsDir == Join(ConfigDir, "environments")

\* the destination of each manifest entry
DstPaths == {Join(ConfigDir, f) : f \in Range(files_to_copy)}
              \cup {Join(EnvironmentsDir, f) : f \in Range(env_files)}

\* every directory _find_bundled_config can probe on the hosts considered
CandidateDirs == {Join(d, "config") : d \in (InstallDirs \ {None, ""})}
                   \cup {Join(ModuleParent, "config"), OptConfig, Join(ModuleDir, "config")}

\* stat bits; "|" of disjoint bit masks is the union of the bits
S_IRWXU == {"S_IRUSR", "S_IWUSR", "S_IXUSR"}
S_IRGRP == {"S_IRGRP"}
S_IXGRP == {"S_IXGRP"}
\* mode of a directory Path.mkdir creates: 0o777 under umask 022
CreatedMode == S_IRWXU \cup S_IRGRP \cup S_IXGRP \cup {"S_IROTH", "S_IXOTH"}
\* mode of a target directory that exists before the first call
ExistingMode == S_IRWXU

\* content of a destination that was put there before the first call
Stale == "stale"
\* no file at a destination
NoFile == ""

\* the paths of a directory d holding the manifest entries L
Tree(d, L) == {d} \cup {Join(d, f) : f \in L}

\* incomplete bundle directories: some entries missing, or an empty directory
PartialLayouts ==
    {L \in SUBSET Manifest : Cardinality(Manifest \ L) \in 1..MaxMissing} \cup {{}}

\* structlog events; every event carries the same fields, unused ones empty
Event(e, f, s, h, n) == [event |-> e, file |-> f, searched |-> s, hint |-> h, count |-> n]

NoCall == [pc |-> "idle", tfiles |-> [d \in DstPaths |-> NoFile], copied |-> 0,
           log |-> <<>>]

\* The hosts considered: any value of the variable; every candidate directory
\* absent or complete, except one that may be incomplete; a target that is
\* absent, cannot be created, or exists (empty, or filled by an earlier
\* installation, one of whose files may be read-only).
Init ==
    /\ install_dir \in InstallDirs
    /\ \E full \in SUBSET CandidateDirs, odd \in CandidateDirs,
          L \in PartialLayouts \cup {Manifest} :
          disk = UNION {IF d = odd THEN Tree(d, L)
                        ELSE IF d \in full THEN Tree(d, Manifest) ELSE {}
                        : d \in CandidateDirs}
    /\ \/ /\ target \in {"absent", "blocked"}
          /\ envdir = "absent"
          /\ tfiles = [d \in DstPaths |-> NoFile]
          /\ locked = {}
       \/ /\ target = "dir"
          /\ envdir \in {"absent", "blocked"}
          /\ tfiles = [d \in DstPaths |-> NoFile]
          /\ locked = {}
       \/ /\ target = "dir"
          /\ envdir = "dir"
          /\ \/ /\ tfiles = [d \in DstPaths |-> NoFile]
                /\ locked = {}
             \/ /\ tfiles = [d \in DstPaths |-> Stale]
                /\ \E K \in SUBSET DstPaths : Cardinality(K) <= 1 /\ locked = K
    /\ mode = IF target = "dir" THEN ExistingMode ELSE {}
    /\ chmod_ok \in BOOLEAN
    /\ pc = "idle"
    /\ raised = ""
    /\ bundled = None
    /\ idx = 0
    /\ copied = 0
    /\ log = <<>>
    /\ chmod_called = FALSE
    /\ calls = 0
    /\ pre = [target |-> target, envdir |-> envdir, tfiles |-> tfiles, mode |-> mode]
    /\ last = NoCall

\* ------------------------------------------------------------------ locator

\* if install_dir: (None and the empty string are false)
Truthy(v) == v # None /\ v # ""

\* as candidates, with the override appended instead of inserted at the front
candidates_appended ==
    LET base == <<Join(ModuleParent, "config"), OptConfig, Join(ModuleDir, "config")>>
    IN  IF Truthy(install_dir) THEN base \o <<Join(install_dir, "config")>> ELSE base

\* the candidates list, after the optional insert(0, ...)
candidates ==
    LET base == <<Join(ModuleParent, "config"), OptConfig, Join(ModuleDir, "config")>>
    IN  IF Truthy(install_dir) THEN <<Join(install_dir, "config")>> \o base ELSE base

\* Path.exists
exists(p) == p \in disk

RECURSIVE FirstMatch_NoMarker(_)
\* as FirstMatch, accepting any candidate that exists
FirstMatch_NoMarker(cs) ==
    IF cs = <<>> THEN None
    ELSE IF exists(Head(cs))
         THEN Head(cs)
         ELSE FirstMatch_NoMarker(Tail(cs))

RECURSIVE FirstMatch(_)
\* the for loop over candidates: the first that exists and holds the marker
FirstMatch(cs) ==
    IF cs = <<>> THEN None
    ELSE IF exists(Head(cs)) /\ exists(Join(Head(cs), "base-policy.yaml"))
         THEN Head(cs)
         ELSE FirstMatch(Tail(cs))

find_bundled_config == FirstMatch(candidates)

\* ------------------------------------------------------------------ initialize_config

\* as copy2, writing after what the destination already holds
copy2_appends(src, dst) == [tfiles EXCEPT ![dst] = tfiles[dst] \o src]

\* shutil.copy2(src, dst): dst receives the content (and metadata) of src;
\* a bundled file's content is identified by its path
copy2(src, dst) == [tfiles EXCEPT ![dst] = src]

\* a caller invokes initialize_config(ConfigDir): a fresh frame, no locals bound
Call ==
    /\ pc \in {"idle", "done", "raised"}
    /\ calls < MaxCalls
    /\ calls' = calls + 1
    /\ last' = IF pc = "idle" THEN NoCall
               ELSE [pc |-> pc, tfiles |-> tfiles, copied |-> copied, log |-> log]
    /\ pre' = [target |-> target, envdir |-> envdir, tfiles |-> tfiles, mode |-> mode]
    /\ pc' = "mkdir_target"
    /\ raised' = ""
    /\ bundled' = None
    /\ idx' = 0
    /\ copied' = 0
    /\ log' = <<>>
    /\ chmod_called' = FALSE
    /\ UNCHANGED <<host, target, envdir, tfiles, mode>>

\* target.mkdir(parents=True, exist_ok=True)
MkdirTarget ==
    /\ pc = "mkdir_target"
    /\ IF target = "blocked"
       THEN /\ pc' = "raised"
            /\ raised' = "mkdir"
            /\ UNCHANGED <<target, mode>>
       ELSE /\ target' = "dir"
            /\ mode' = IF target = "absent" THEN CreatedMode ELSE mode
            /\ pc' = "mkdir_env"
            /\ UNCHANGED raised
    /\ UNCHANGED <<host, envdir, tfiles, bundled, idx, copied, log, chmod_called,
                   calls, pre, last>>

\* as MkdirEnv, without creating the directory
MkdirEnv_Skipped ==
    /\ pc = "mkdir_env"
    /\ IF envdir = "blocked"
       THEN /\ pc' = "raised"
            /\ raised' = "mkdir"
       ELSE /\ pc' = "find"
            /\ UNCHANGED raised
    /\ UNCHANGED <<host, target, envdir, mode, tfiles, bundled, idx, copied, log,
                   chmod_called, calls, pre, last>>

\* environments_dir.mkdir(parents=True, exist_ok=True)
MkdirEnv ==
    /\ pc = "mkdir_env"
    /\ IF envdir = "blocked"
       THEN /\ pc' = "raised"
            /\ raised' = "mkdir"
            /\ UNCHANGED envdir
       ELSE /\ envdir' = "dir"
            /\ pc' = "find"
            /\ UNCHANGED raised
    /\ UNCHANGED <<host, target, mode, tfiles, bundled, idx, copied, log,
                   chmod_called, calls, pre, last>>

\* bundled = _find_bundled_config() and the branch on None, up to copied = 0
FindBundled ==
    /\ pc = "find"
    /\ bundled' = find_bundled_config
    /\ IF bundled' = None
       THEN /\ log' = Append(log, Event("bundled_config_not_found", "",
                        <<Join(ModuleParent, "config"), "/opt/safeskill/src/config">>,
                        "Set SAFESKILL_INSTALL_DIR to the project root", 0))
            /\ pc' = "done"
            /\ UNCHANGED <<idx, copied>>
       ELSE /\ log' = Append(log, Event("bundled_config_found", bundled', <<>>, "", 0))
            /\ copied' = 0
            /\ idx' = 1
            /\ pc' = "copy_top"
    /\ UNCHANGED <<host, target, envdir, tfiles, mode, raised, chmod_called, calls,
                   pre, last>>

\* one iteration of: for filename in files_to_copy
CopyTop ==
    /\ pc = "copy_top"
    /\ LET filename == files_to_copy[idx]
           src == Join(bundled, filename)
           dst == Join(ConfigDir, filename)
       IN  IF exists(src)
           THEN IF dst \in locked
                THEN /\ pc' = "raised"
                     /\ raised' = "copy"
                     /\ UNCHANGED <<tfiles, copied, log, idx>>
                ELSE /\ tfiles' = copy2(src, dst)
                     /\ copied' = copied + 1
                     /\ log' = Append(log, Event("config_file_installed", dst, <<>>, "", 0))
                     /\ idx' = IF idx = Len(files_to_copy) THEN 1 ELSE idx + 1
                     /\ pc' = IF idx = Len(files_to_copy) THEN "copy_env" ELSE pc
                     /\ UNCHANGED raised
           ELSE /\ log' = Append(log, Event("bundled_file_missing", filename, <<>>, "", 0))
                /\ idx' = IF idx = Len(files_to_copy) THEN 1 ELSE idx + 1
                /\ pc' = IF idx = Len(files_to_copy) THEN "copy_env" ELSE pc
                /\ UNCHANGED <<tfiles, copied, raised>>
    /\ UNCHANGED <<host, target, envdir, mode, bundled, chmod_called, calls, pre, last>>

\* as CopyEnv, without counting the copy
CopyEnv_NoCount ==
    /\ pc = "copy_env"
    /\ LET filename == env_files[idx]
           src == Join(Join(bundled, "environments"), filename)
           dst == Join(EnvironmentsDir, filename)
       IN  IF exists(src)
           THEN IF dst \in locked
                THEN /\ pc' = "raised"
                     /\ raised' = "copy"
                     /\ UNCHANGED <<tfiles, copied, log, idx>>
                ELSE /\ tfiles' = copy2(src, dst)
                     /\ log' = Append(log, Event("config_file_installed", dst, <<>>, "", 0))
                     /\ idx' = IF idx = Len(env_files) THEN 0 ELSE idx + 1
                     /\ pc' = IF idx = Len(env_files) THEN "summary" ELSE pc
                     /\ UNCHANGED <<raised, copied>>
           ELSE /\ idx' = IF idx = Len(env_files) THEN 0 ELSE idx + 1
                /\ pc' = IF idx = Len(env_files) THEN "summary" ELSE pc
                /\ UNCHANGED <<tfiles, copied, log, raised>>
    /\ UNCHANGED <<host, target, envdir, mode, bundled, chmod_called, calls, pre, last>>

\* as CopyEnv, warning about a missing file the way the first loop does
CopyEnv_Warns ==
    /\ pc = "copy_env"
    /\ LET filename == env_files[idx]
           src == Join(Join(bundled, "environments"), filename)
           dst == Join(EnvironmentsDir, filename)
       IN  IF exists(src)
           THEN IF dst \in locked
                THEN /\ pc' = "raised"
                     /\ raised' = "copy"
                     /\ UNCHANGED <<tfiles, copied, log, idx>>
                ELSE /\ tfiles' = copy2(src, dst)
                     /\ copied' = copied + 1
                     /\ log' = Append(log, Event("config_file_installed", dst, <<>>, "", 0))
                     /\ idx' = IF idx = Len(env_files) THEN 0 ELSE idx + 1
                     /\ pc' = IF idx = Len(env_files) THEN "summary" ELSE pc
                     /\ UNCHANGED raised
           ELSE /\ log' = Append(log, Event("bundled_file_missing", filename, <<>>, "", 0))
                /\ idx' = IF idx = Len(env_files) THEN 0 ELSE idx + 1
                /\ pc' = IF idx = Len(env_files) THEN "summary" ELSE pc
                /\ UNCHANGED <<tfiles, copied, raised>>
    /\ UNCHANGED <<host, target, envdir, mode, bundled, chmod_called, calls, pre, last>>

\* one iteration of: for filename in env_files
CopyEnv ==
    /\ pc = "copy_env"
    /\ LET filename == env_files[idx]
           src == Join(Join(bundled, "environments"), filename)
           dst == Join(EnvironmentsDir, filename)
       IN  IF exists(src)
           THEN IF dst \in locked
                THEN /\ pc' = "raised"
                     /\ raised' = "copy"
                     /\ UNCHANGED <<tfiles, copied, log, idx>>
                ELSE /\ tfiles' = copy2(src, dst)
                     /\ copied' = copied + 1
                     /\ log' = Append(log, Event("config_file_installed", dst, <<>>, "", 0))
                     /\ idx' = IF idx = Len(env_files) THEN 0 ELSE idx + 1
                     /\ pc' = IF idx = Len(env_files) THEN "summary" ELSE pc
                     /\ UNCHANGED raised
           ELSE /\ idx' = IF idx = Len(env_files) THEN 0 ELSE idx + 1
                /\ pc' = IF idx = Len(env_files) THEN "summary" ELSE pc
                /\ UNCHANGED <<tfiles, copied, log, raised>>
    /\ UNCHANGED <<host, target, envdir, mode, bundled, chmod_called, calls, pre, last>>

\* as Summary, reporting the size of the manifest
Summary_Hardcoded ==
    /\ pc = "summary"
    /\ log' = Append(log, Event("config_initialized", ConfigDir, <<>>, "",
                                Len(files_to_copy) + Len(env_files)))
    /\ pc' = "chmod"
    /\ UNCHANGED <<host, target, envdir, tfiles, mode, raised, bundled, idx, copied,
                   chmod_called, calls, pre, last>>

\* logger.info("config_initialized", target=..., files_copied=copied)
Summary ==
    /\ pc = "summary"
    /\ log' = Append(log, Event("config_initialized", ConfigDir, <<>>, "", copied))
    /\ pc' = "chmod"
    /\ UNCHANGED <<host, target, envdir, tfiles, mode, raised, bundled, idx, copied,
                   chmod_called, calls, pre, last>>

\* as Chmod, without the except clause
Chmod_Raises ==
    /\ pc = "chmod"
    /\ chmod_called' = TRUE
    /\ mode' = IF chmod_ok THEN S_IRWXU \cup S_IRGRP \cup S_IXGRP ELSE mode
    /\ pc' = IF chmod_ok THEN "done" ELSE "raised"
    /\ raised' = IF chmod_ok THEN raised ELSE "chmod"
    /\ UNCHANGED <<host, target, envdir, tfiles, bundled, idx, copied, log,
                   calls, pre, last>>

\* try: os.chmod(target, S_IRWXU | S_IRGRP | S_IXGRP)  except OSError: pass
Chmod ==
    /\ pc = "chmod"
    /\ chmod_called' = TRUE
    /\ mode' = IF chmod_ok THEN S_IRWXU \cup S_IRGRP \cup S_IXGRP ELSE mode
    /\ pc' = "done"
    /\ UNCHANGED <<host, target, envdir, tfiles, raised, bundled, idx, copied, log,
                   calls, pre, last>>

Next ==
    \/ Call
    \/ MkdirTarget
    \/ MkdirEnv
    \/ FindBundled
    \/ CopyTop
    \/ CopyEnv
    \/ Summary
    \/ Chmod

Spec == Init /\ [][Next]_vars

\* ------------------------------------------------------------------ properties

\* the running call has ended: it returned or it raised
Finished == pc \in {"done", "raised"}

\* the manifest entries a directory holds
Layout(d) == {f \in Manifest : Join(d, f) \in disk}

\* the destination of a manifest entry
Dst(f) == Join(ConfigDir, f)

\* a candidate _find_bundled_config accepts
Valid(d) == d \in disk /\ Join(d, "base-policy.yaml") \in disk

\* the events of one kind the running call has logged, in order
Events(e) == SelectSeq(log, LAMBDA r : r.event = e)

\* no destination the call writes to refuses the write
Writable == \A f \in Layout(bundled) : Dst(f) \notin locked

\* the mode of the target once both mkdir calls have run
ModeAfterMkdir == IF pre.target = "dir" THEN pre.mode ELSE CreatedMode

TopLevel == Range(files_to_copy)
EnvEntries == {Join("environments", f) : f \in Range(env_files)}

\* C1 as claimed: a call that returns on a host whose only candidate directory
\* lacks exactly one top-level file f (base-policy.yaml included) has copied
\* five files and logged one bundled_file_missing event, for f.
C1_AnyTopLevelMissing ==
    \A f \in TopLevel :
        (/\ pc = "done"
         /\ \E d \in Range(candidates) :
               /\ Layout(d) = Manifest \ {f}
               /\ d \in disk
               /\ \A e \in Range(candidates) \ {d} : e \notin disk)
        => /\ copied = 5
           /\ Len(Events("bundled_file_missing")) = 1
           /\ Events("bundled_file_missing")[1].file = f

\* C1 amended: when the bundle found lacks exactly runtime-policy.yaml or
\* exactly signatures.yaml and its destinations are writable, the call returns
\* having copied five files and logged exactly one bundled_file_missing event,
\* naming that file; a directory without base-policy.yaml is never taken as the
\* bundle, and no bundled_file_missing event ever names base-policy.yaml.
C1_NonMarkerMissing ==
    /\ \A f \in TopLevel \ {"base-policy.yaml"} :
          (Finished /\ bundled # None /\ Layout(bundled) = Manifest \ {f} /\ Writable)
          => /\ pc = "done"
             /\ copied = 5
             /\ Len(Events("config_file_installed")) = 5
             /\ Len(Events("bundled_file_missing")) = 1
             /\ Events("bundled_file_missing")[1].file = f
    /\ bundled # None => "base-policy.yaml" \in Layout(bundled)
    /\ \A k \in 1..Len(log) :
          log[k].event = "bundled_file_missing" => log[k].file # "base-policy.yaml"

C1_Witness ==
    /\ pc = "done"
    /\ bundled # None
    /\ Layout(bundled) = Manifest \ {"signatures.yaml"}
    /\ copied = 5
    /\ Len(Events("bundled_file_missing")) = 1

\* C2: a call raises if and only if creating the target directory or its
\* environments subdirectory fails; every other anomaly ends in a normal return.
C2_OnlyMkdirRaises ==
    Finished =>
        (pc = "raised" <=> (pre.target = "blocked" \/ pre.envdir = "blocked"))

\* C3: the locator returns the first valid candidate in the order override (when
\* the variable has a value), parent-of-parent/config, /opt/safeskill/src/config,
\* module-directory/config, and nothing when none is valid; a valid override
\* wins over every other valid candidate and a candidate without the marker is
\* passed over.
C3_FirstValidWins ==
    Len(log) > 0 =>
        LET o == Truthy(install_dir) /\ Valid(Join(install_dir, "config"))
            a == Join(ModuleParent, "config")
            b == "/opt/safeskill/src/config"
            c == Join(ModuleDir, "config")
        IN  /\ o => bundled = Join(install_dir, "config")
            /\ (~o /\ Valid(a)) => bundled = a
            /\ (~o /\ ~Valid(a) /\ Valid(b)) => bundled = b
            /\ (~o /\ ~Valid(a) /\ ~Valid(b) /\ Valid(c)) => bundled = c
            /\ (~o /\ ~Valid(a) /\ ~Valid(b) /\ ~Valid(c)) => bundled = None

C3_Witness ==
    /\ pc = "done"
    /\ install_dir = "/srv/safeskill"
    /\ bundled = "/srv/safeskill/config"
    /\ Valid(Join(ModuleParent, "config"))
    /\ Valid("/opt/safeskill/src/config")

\* C4: the searched field of a bundled_config_not_found event is the list of
\* candidates the locator probed in that call, and the event carries a hint.
C4_SearchedIsProbed ==
    \A k \in 1..Len(log) :
        log[k].event = "bundled_config_not_found"
        => log[k].searched = candidates /\ log[k].hint # ""

\* C5: when no candidate holds base-policy.yaml and the directories can be
\* created, the call returns with the target and its environments subdirectory
\* in place, no file copied, and bundled_config_not_found as its only event.
C5_NotFound ==
    (/\ Finished
     /\ pre.target # "blocked"
     /\ pre.envdir # "blocked"
     /\ \A d \in Range(candidates) : Join(d, "base-policy.yaml") \notin disk)
    => /\ pc = "done"
       /\ target = "dir"
       /\ envdir = "dir"
       /\ tfiles = pre.tfiles
       /\ copied = 0
       /\ Len(log) = 1
       /\ log[1].event = "bundled_config_not_found"

C5_Witness ==
    /\ pc = "done"
    /\ bundled = None
    /\ pre.target = "absent"
    /\ target = "dir"
    /\ envdir = "dir"
    /\ \E d \in Range(candidates) : d \in disk
    /\ Len(log) = 1

\* C6: when the bundle found holds all six manifest files and the destinations
\* are writable, the call returns having copied six files, three to the target
\* root and three to target/environments, with six config_file_installed
\* events, no bundled_file_missing event and a summary reporting 6.
C6_AllSix ==
    (Finished /\ bundled # None /\ Layout(bundled) = Manifest /\ Writable)
    => /\ pc = "done"
       /\ copied = 6
       /\ \A f \in Manifest : tfiles[Dst(f)] = Join(bundled, f)
       /\ Len(Events("config_file_installed")) = 6
       /\ {r.file : r \in Range(Events("config_file_installed"))} = DstPaths
       /\ Events("bundled_file_missing") = <<>>
       /\ log[Len(log)] = Event("config_initialized", ConfigDir, <<>>, "", 6)

C6_Witness ==
    /\ pc = "done"
    /\ bundled # None
    /\ Layout(bundled) = Manifest
    /\ copied = 6
    /\ pre.tfiles = [d \in DstPaths |-> NoFile]

\* C7: when the bundle found lacks exactly one environment file and the
\* destinations are writable, the call returns having copied five files and
\* logged nothing but bundled_config_found, five config_file_installed events
\* and the summary; the absent file's destination is left as it was.
C7_MissingEnvSilent ==
    \A f \in EnvEntries :
        (Finished /\ bundled # None /\ Layout(bundled) = Manifest \ {f} /\ Writable)
        => /\ pc = "done"
           /\ copied = 5
           /\ Len(Events("config_file_installed")) = 5
           /\ Events("bundled_file_missing") = <<>>
           /\ \A k \in 1..Len(log) :
                 log[k].event \in {"bundled_config_found", "config_file_installed",
                                   "config_initialized"}
           /\ tfiles[Dst(f)] = pre.tfiles[Dst(f)]

C7_Witness ==
    /\ pc = "done"
    /\ bundled # None
    /\ Layout(bundled) = Manifest \ {"environments/staging.yaml"}
    /\ copied = 5
    /\ Len(log) = 7

C9_ChmodSwallowed ==
    /\ raised # "chmod"
    /\ (Finished /\ chmod_called /\ ~chmod_ok)
       => /\ pc = "done"
          /\ log[Len(log)].event = "config_initialized"
          /\ \A f \in Layout(bundled) : tfiles[Dst(f)] = Join(bundled, f)
          /\ mode = ModeAfterMkdir

C9_Witness ==
    /\ pc = "done"
    /\ chmod_called
    /\ ~chmod_ok
    /\ copied > 0
    /\ mode = ExistingMode

\* C10: once the summary is logged its files_copied equals the number of
\* config_file_installed events and the number of manifest entries present in
\* the bundle; os.chmod is called only when a bundle was found, and a call that
\* finds none leaves the target's files and mode as the mkdir calls left them.
C10_CountsAgree ==
    /\ (pc \in {"chmod", "done"} /\ bundled # None)
       => /\ log[Len(log)].event = "config_initialized"
          /\ log[Len(log)].count = Len(Events("config_file_installed"))
          /\ log[Len(log)].count = Cardinality(Layout(bundled))
    /\ chmod_called => bundled # None
    /\ (pc = "done" /\ bundled = None)
       => /\ ~chmod_called
          /\ tfiles = pre.tfiles
          /\ mode = ModeAfterMkdir

C10_Witness ==
    /\ pc = "done"
    /\ bundled # None
    /\ Cardinality(Layout(bundled)) = 5
    /\ log[Len(log)].count = 5
    /\ chmod_called

====
